---- MODULE Spec2Model ----
(***************************************************************************)
(* Token ledger of the wedding planner backend: the PaymentToken model     *)
(* (app/models/payment_token.py), its usability predicate, the consume     *)
(* operation use_token / mark_as_used and the refund operation             *)
(* mark_as_refunded.                                                       *)
(*                                                                         *)
(* Three specifications are given over the same token record:              *)
(*   Spec      one token from creation, the methods called one at a time;  *)
(*   SpecConc  several requests running use_token on the same token, one   *)
(*             statement at a time;                                        *)
(*   SpecPure  can_be_used / is_available applied to arbitrary rows.       *)
(*                                                                         *)
(* The other subsystems have a specification each; the variables of the    *)
(* subsystems a specification does not exercise keep their idle values:    *)
(*   SpecUser     the entitlement methods of User (app/models/user.py);    *)
(*   SpecContact  the contact inbox endpoints (app/api/contact.py);        *)
(*   SpecWm       WatermarkService (app/services/watermark_service.py);    *)
(*   SpecMw       the middleware of app/middleware/security.py as          *)
(*                registered in app/main.py.                               *)
(***************************************************************************)
EXTENDS Integers, Sequences, FiniteSets, Bags, TLC

\* ---------------------------------------------------------------- bounds
MaxUses == 3
MaxTime == 2
MaxCalls == 5
NumRequests == 2

\* ------------------------------------------------------------ enum types
TokenStatus == {"unused", "used", "refunded", "expired"}

PaymentStatus == {"pending", "completed", "failed", "refunded"}

\* A nullable column that holds no value (timestamps are >= 0).
None == -1

NoneStr == "None"

RefundIds == {"rfnd_1", "rfnd_2"}

RefundReasons == {"requested", "duplicate"}

GenerationIds == {None, 7}

Requests == 1..NumRequests

VARIABLES
    token,      \* the PaymentToken row / object
    now,        \* datetime.utcnow()
    lastOp,     \* the method called last
    raised,     \* whether that call raised
    ret,        \* the value returned by the last predicate call
    calls,      \* number of method calls made so far
    pc,         \* SpecConc: position of each request inside use_token
    loaded,     \* SpecConc: value read by `self.uses_remaining -= 1`
    payment_tokens,          \* User.payment_tokens, in collection order
    free_credits_remaining,  \* User.free_credits_remaining
    tplArg,     \* template_id passed to the last User method (0: none)
    picked,     \* position of the token get_unused_token_for_template
                \* returned (0: None)
    usage,      \* dict returned by get_token_usage_for_template
    contacts,   \* the contacts table: id -> row
    nextId,     \* next primary key of the contacts table
    cAdmin,     \* current_user.is_admin of the last contact request
    cId,        \* contact_id of the last contact request (0: none)
    cStatus,    \* HTTP status of the last contact response (0: none)
    cBody,      \* ContactUpdateStatus body of the last PATCH request
    wmIn,       \* arguments and environment of the last watermark call
    wmFile,     \* the file at output_path
    wmRes,      \* outcome of the last watermark call
    failed_attempts,  \* SuspiciousActivityMiddleware.failed_attempts
    blocked_ips,      \* SuspiciousActivityMiddleware.blocked_ips
    blocked_since,    \* history: the time each IP entered blocked_ips
                      \* (the middleware keeps no such record)
    inflight,   \* bag of the requests awaiting call_next in dispatch
    mwResp      \* what the last dispatch step handed back

userVars == <<payment_tokens, free_credits_remaining, tplArg, picked, usage>>

contactVars == <<contacts, nextId, cAdmin, cId, cStatus, cBody>>

wmVars == <<wmIn, wmFile, wmRes>>

mwVars == <<failed_attempts, blocked_ips, blocked_since, inflight, mwResp>>

extVars == <<userVars, contactVars, wmVars, mwVars>>

vars == <<token, now, lastOp, raised, ret, calls, pc, loaded, extVars>>

seqVars == <<lastOp, raised, ret, calls>>

concVars == <<pc, loaded>>

\* ------------------------------------------------------- the token model

\* A row as the columns declare it, with N uses bought.
PaymentToken(ps, N, exp) ==
    [ payment_status |-> ps,
      status         |-> "unused",
      uses_total     |-> N,
      uses_remaining |-> N,
      used_at        |-> None,
      last_used_at   |-> None,
      refund_id      |-> NoneStr,
      refund_reason  |-> NoneStr,
      refunded_at    |-> None,
      expires_at     |-> exp ]

can_be_used_ge(t) ==
    /\ t.payment_status = "completed"
    /\ t.status # "refunded"
    /\ t.status # "expired"
    /\ t.uses_remaining >= 0

can_be_used(t) ==
    /\ t.payment_status = "completed"
    /\ t.status # "refunded"
    /\ t.status # "expired"
    /\ t.uses_remaining > 0

is_available(t) == can_be_used(t)

use_token_raises_lt(t) == t.uses_remaining < 0

\* use_token raises ValueError exactly when this holds.
use_token_raises(t) == t.uses_remaining <= 0

use_token_stamp_first(t, utcnow) ==
    LET t0 == [t EXCEPT !.last_used_at = utcnow]
    IN  IF use_token_raises(t0)
        THEN t0
        ELSE LET t1 == IF t0.used_at = None
                       THEN [t0 EXCEPT !.used_at = utcnow]
                       ELSE t0
                 t2 == [t1 EXCEPT !.uses_remaining = @ - 1]
             IN  IF t2.uses_remaining = 0
                 THEN [t2 EXCEPT !.status = "used"]
                 ELSE t2

use_token_no_status(t, utcnow) ==
    IF use_token_raises(t)
    THEN t
    ELSE LET t1 == IF t.used_at = None
                   THEN [t EXCEPT !.used_at = utcnow]
                   ELSE t
         IN  [t1 EXCEPT !.uses_remaining = @ - 1,
                        !.last_used_at = utcnow]

use_token_restamp(t, utcnow) ==
    IF use_token_raises(t)
    THEN t
    ELSE LET t2 == [t EXCEPT !.used_at = utcnow,
                             !.uses_remaining = @ - 1,
                             !.last_used_at = utcnow]
         IN  IF t2.uses_remaining = 0
             THEN [t2 EXCEPT !.status = "used"]
             ELSE t2

use_token(t, utcnow) ==
    IF use_token_raises(t)
    THEN t
    ELSE LET t1 == IF t.used_at = None
                   THEN [t EXCEPT !.used_at = utcnow]
                   ELSE t
             t2 == [t1 EXCEPT !.uses_remaining = @ - 1,
                              !.last_used_at = utcnow]
         IN  IF t2.uses_remaining = 0
             THEN [t2 EXCEPT !.status = "used"]
             ELSE t2

mark_as_used(t, generation_id, utcnow) == use_token(t, utcnow)

mark_as_refunded_status_only(t, refund_id, reason, utcnow) ==
    [t EXCEPT !.status = "refunded",
              !.refund_id = refund_id,
              !.refund_reason = reason,
              !.refunded_at = utcnow]

mark_as_refunded_restore_uses(t, refund_id, reason, utcnow) ==
    [t EXCEPT !.status = "refunded",
              !.payment_status = "refunded",
              !.refund_id = refund_id,
              !.refund_reason = reason,
              !.refunded_at = utcnow,
              !.uses_remaining = t.uses_total]

mark_as_refunded_void_uses(t, refund_id, reason, utcnow) ==
    [t EXCEPT !.status = "refunded",
              !.payment_status = "refunded",
              !.refund_id = refund_id,
              !.refund_reason = reason,
              !.refunded_at = utcnow,
              !.uses_remaining = 0]

mark_as_refunded(t, refund_id, reason, utcnow) ==
    [t EXCEPT !.status = "refunded",
              !.payment_status = "refunded",
              !.refund_id = refund_id,
              !.refund_reason = reason,
              !.refunded_at = utcnow]

\* ------------------------------------------------------------ idle values

EmptyUsage ==
    [ total_tokens         |-> 0,
      total_uses_purchased |-> 0,
      uses_remaining       |-> 0,
      uses_consumed        |-> 0,
      available_tokens     |-> <<>> ]

UserIdle ==
    /\ payment_tokens = <<>>
    /\ free_credits_remaining = 2
    /\ tplArg = 0
    /\ picked = 0
    /\ usage = EmptyUsage

\* ContactUpdateStatus with every field at its default None; an Optional
\* value is a set: {} is None, {v} is the value v.
NoBody == [is_read |-> {}, is_responded |-> {}, admin_notes |-> NoneStr]

ContactIdle ==
    /\ contacts = <<>>
    /\ nextId = 1
    /\ cAdmin = FALSE
    /\ cId = 0
    /\ cStatus = 0
    /\ cBody = NoBody

NoFile == [present |-> FALSE, complete |-> FALSE, mode |-> NoneStr]

NoInput ==
    [ http |-> FALSE, fetched |-> FALSE, decodes |-> FALSE,
      mode |-> NoneStr, width |-> 0, height |-> 0,
      logo_path |-> FALSE, logo_exists |-> FALSE, logo_decodes |-> FALSE,
      logo_width |-> 0, logo_height |-> 0,
      save_ok |-> FALSE, save_partial |-> FALSE ]

NoResult ==
    [ ok |-> FALSE, error |-> NoneStr, cause |-> NoneStr,
      composite_mode |-> NoneStr, sized |-> FALSE,
      logo_w |-> 0, logo_h |-> 0, logo_x |-> 0, logo_y |-> 0 ]

WmIdle ==
    /\ wmIn = NoInput
    /\ wmFile = NoFile
    /\ wmRes = NoResult

\* request.client.host of the clients
IPs == {"10.0.0.1", "10.0.0.2"}

NoResponse ==
    [ client_ip |-> NoneStr, current_time |-> 0, call_next |-> FALSE,
      status_code |-> 0, error |-> NoneStr, headers |-> {} ]

\* SuspiciousActivityMiddleware.__init__
MwIdle ==
    /\ failed_attempts = [ip \in IPs |-> <<>>]
    /\ blocked_ips = {}
    /\ blocked_since = [ip \in IPs |-> None]
    /\ inflight = EmptyBag
    /\ mwResp = NoResponse

ExtIdle == UserIdle /\ ContactIdle /\ WmIdle /\ MwIdle

TokenIdle ==
    /\ token = PaymentToken("pending", 1, None)
    /\ now = 0
    /\ lastOp = "none"
    /\ raised = FALSE
    /\ ret = FALSE
    /\ calls = 0
    /\ pc = [r \in Requests |-> "idle"]
    /\ loaded = [r \in Requests |-> 0]

\* ------------------------------------------------- Spec: sequential calls

Init ==
    /\ \E ps \in {"pending", "completed", "failed"} :
       \E N \in 1..MaxUses :
       \E exp \in {None} \cup (0..MaxTime) :
          token = PaymentToken(ps, N, exp)
    /\ now = 0
    /\ lastOp = "none"
    /\ raised = FALSE
    /\ ret = FALSE
    /\ calls = 0
    /\ pc = [r \in Requests |-> "idle"]
    /\ loaded = [r \in Requests |-> 0]
    /\ ExtIdle

Tick ==
    /\ now < MaxTime
    /\ now' = now + 1
    /\ UNCHANGED <<token, seqVars, concVars, extVars>>

UseToken ==
    /\ calls < MaxCalls
    /\ token' = use_token(token, now)
    /\ raised' = use_token_raises(token)
    /\ lastOp' = "use_token"
    /\ calls' = calls + 1
    /\ UNCHANGED <<now, ret, concVars, extVars>>

MarkAsUsed ==
    /\ calls < MaxCalls
    /\ \E generation_id \in GenerationIds :
          token' = mark_as_used(token, generation_id, now)
    /\ raised' = use_token_raises(token)
    /\ lastOp' = "mark_as_used"
    /\ calls' = calls + 1
    /\ UNCHANGED <<now, ret, concVars, extVars>>

MarkAsRefunded ==
    /\ calls < MaxCalls
    /\ \E refund_id \in RefundIds, reason \in RefundReasons :
          token' = mark_as_refunded(token, refund_id, reason, now)
    /\ raised' = FALSE
    /\ lastOp' = "mark_as_refunded"
    /\ calls' = calls + 1
    /\ UNCHANGED <<now, ret, concVars, extVars>>

CanBeUsed ==
    /\ calls < MaxCalls
    /\ ret' = can_be_used(token)
    /\ raised' = FALSE
    /\ lastOp' = "can_be_used"
    /\ calls' = calls + 1
    /\ UNCHANGED <<token, now, concVars, extVars>>

IsAvailable ==
    /\ calls < MaxCalls
    /\ ret' = is_available(token)
    /\ raised' = FALSE
    /\ lastOp' = "is_available"
    /\ calls' = calls + 1
    /\ UNCHANGED <<token, now, concVars, extVars>>

Next ==
    \/ Tick
    \/ UseToken
    \/ MarkAsUsed
    \/ MarkAsRefunded
    \/ CanBeUsed
    \/ IsAvailable

Spec == Init /\ [][Next]_vars

\* --------------------------- SpecConc: requests interleaved in use_token

RECURSIVE UseTimes(_, _)
UseTimes(t, k) == IF k = 0 THEN t ELSE UseTimes(use_token(t, 0), k - 1)

\* Every request is about to consume the same token, which has one use left.
InitConc ==
    /\ \E ps \in {"pending", "completed", "failed"} :
       \E N \in 1..MaxUses :
       \E exp \in {None} \cup (0..MaxTime) :
          token = UseTimes(PaymentToken(ps, N, exp), N - 1)
    /\ now = 0
    /\ lastOp = "none"
    /\ raised = FALSE
    /\ ret = FALSE
    /\ calls = 0
    /\ pc = [r \in Requests |-> "check"]
    /\ loaded = [r \in Requests |-> 0]
    /\ ExtIdle

\* if self.uses_remaining <= 0: raise ValueError(...)
Check(r) ==
    /\ pc[r] = "check"
    /\ pc' = [pc EXCEPT ![r] = IF use_token_raises(token)
                               THEN "raised" ELSE "first_use"]
    /\ UNCHANGED <<token, now, seqVars, loaded, extVars>>

\* if self.used_at is None: self.used_at = datetime.utcnow()
FirstUse(r) ==
    /\ pc[r] = "first_use"
    /\ token' = IF token.used_at = None
                THEN [token EXCEPT !.used_at = now]
                ELSE token
    /\ pc' = [pc EXCEPT ![r] = "load"]
    /\ UNCHANGED <<now, seqVars, loaded, extVars>>

\* self.uses_remaining -= 1, the read of the attribute
Load(r) ==
    /\ pc[r] = "load"
    /\ loaded' = [loaded EXCEPT ![r] = token.uses_remaining]
    /\ pc' = [pc EXCEPT ![r] = "store"]
    /\ UNCHANGED <<token, now, seqVars, extVars>>

\* self.uses_remaining -= 1, the write of the attribute
Store(r) ==
    /\ pc[r] = "store"
    /\ token' = [token EXCEPT !.uses_remaining = loaded[r] - 1]
    /\ pc' = [pc EXCEPT ![r] = "stamp"]
    /\ UNCHANGED <<now, seqVars, loaded, extVars>>

\* self.last_used_at = datetime.utcnow()
Stamp(r) ==
    /\ pc[r] = "stamp"
    /\ token' = [token EXCEPT !.last_used_at = now]
    /\ pc' = [pc EXCEPT ![r] = "mark"]
    /\ UNCHANGED <<now, seqVars, loaded, extVars>>

\* if self.uses_remaining == 0: self.status = TokenStatus.USED
MarkUsed(r) ==
    /\ pc[r] = "mark"
    /\ token' = IF token.uses_remaining = 0
                THEN [token EXCEPT !.status = "used"]
                ELSE token
    /\ pc' = [pc EXCEPT ![r] = "done"]
    /\ UNCHANGED <<now, seqVars, loaded, extVars>>

NextConc ==
    \/ Tick
    \/ \E r \in Requests : Check(r)
    \/ \E r \in Requests : FirstUse(r)
    \/ \E r \in Requests : Load(r)
    \/ \E r \in Requests : Store(r)
    \/ \E r \in Requests : Stamp(r)
    \/ \E r \in Requests : MarkUsed(r)

SpecConc == InitConc /\ [][NextConc]_vars

\* ------------------- SpecPure: the usability predicate on arbitrary rows

InitPure ==
    /\ \E ps \in PaymentStatus, st \in TokenStatus :
       \E N \in 0..MaxUses, rem \in (-1)..MaxUses :
       \E exp \in {None} \cup (0..MaxTime) :
          token = [PaymentToken(ps, N, exp) EXCEPT !.status = st,
                                                  !.uses_remaining = rem]
    /\ now \in 0..MaxTime
    /\ lastOp = "none"
    /\ raised = FALSE
    /\ ret = FALSE
    /\ calls = 0
    /\ pc = [r \in Requests |-> "idle"]
    /\ loaded = [r \in Requests |-> 0]
    /\ ExtIdle

NextPure ==
    \/ CanBeUsed
    \/ IsAvailable

SpecPure == InitPure /\ [][NextPure]_vars

\* ------------------------------- SpecUser: the entitlement methods of User

MaxTokens == 2

\* Column default of uses_total / uses_remaining.
DefaultUses == 2

Templates == {1, 2}

FreeCredits == {-1, 0, 2}

\* A token of the user's collection: a PaymentToken row with its keys.
UserToken(tid, tpl, row) == [id |-> tid, template_id |-> tpl] @@ row

\* Rows a purchase can have reached: bought with up to DefaultUses uses and
\* consumed from k times, not (yet) paid for, or refunded.
CompletedRows ==
    UNION { { UseTimes(PaymentToken("completed", N, None), k) : k \in 0..N }
            : N \in 1..DefaultUses }

UserRows ==
    CompletedRows
      \cup { PaymentToken(ps, N, None) :
               ps \in {"pending", "failed"}, N \in 1..DefaultUses }
      \cup { mark_as_refunded(r, "rfnd_1", "requested", 0) : r \in CompletedRows }

\* return True (the old credit check is commented out)
can_generate_with_free_template_old(credits) ==
    [result |-> credits > 0, free_credits_remaining |-> credits]

can_generate_with_free_template(credits) ==
    [result |-> TRUE, free_credits_remaining |-> credits]

\* The old logic, kept in the source as a comment.
deduct_free_credit_old(credits) ==
    IF credits <= 0
    THEN [result |-> FALSE, free_credits_remaining |-> credits]
    ELSE [result |-> TRUE, free_credits_remaining |-> credits - 1]

deduct_free_credit(credits) ==
    [result |-> TRUE, free_credits_remaining |-> credits]

\* next((token for token in tokens if ...), None), scanning from position i;
\* the position of the token found, 0 for None.
RECURSIVE next_usable_any_state(_, _, _)
next_usable_any_state(tokens, template_id, i) ==
    IF i > Len(tokens) THEN 0
    ELSE IF tokens[i].template_id = template_id
         THEN i
         ELSE next_usable_any_state(tokens, template_id, i + 1)

RECURSIVE next_usable(_, _, _)
next_usable(tokens, template_id, i) ==
    IF i > Len(tokens) THEN 0
    ELSE IF tokens[i].template_id = template_id /\ can_be_used(tokens[i])
         THEN i
         ELSE next_usable(tokens, template_id, i + 1)

can_generate_with_paid_template(tokens, template_id) ==
    LET available_token == next_usable(tokens, template_id, 1)
    IN  [result |-> available_token # 0, payment_tokens |-> tokens]

\* A selection that debits the token it selects.
get_unused_token_for_template_debit(tokens, template_id) ==
    LET found == next_usable(tokens, template_id, 1)
    IN  [result |-> found,
         payment_tokens |->
            IF found = 0 THEN tokens
            ELSE [tokens EXCEPT ![found] = use_token(@, 0)]]

get_unused_token_for_template(tokens, template_id) ==
    [result |-> next_usable(tokens, template_id, 1), payment_tokens |-> tokens]

RECURSIVE SumUsesTotal(_)
SumUsesTotal(tokens) ==
    IF tokens = <<>> THEN 0
    ELSE Head(tokens).uses_total + SumUsesTotal(Tail(tokens))

RECURSIVE SumUsesRemaining(_)
SumUsesRemaining(tokens) ==
    IF tokens = <<>> THEN 0
    ELSE Head(tokens).uses_remaining + SumUsesRemaining(Tail(tokens))

RECURSIVE AvailableTokens(_)
AvailableTokens(tokens) ==
    IF tokens = <<>> THEN <<>>
    ELSE LET t == Head(tokens)
             rest == AvailableTokens(Tail(tokens))
         IN  IF can_be_used(t)
             THEN << [token_id |-> t.id,
                      uses_remaining |-> t.uses_remaining,
                      uses_total |-> t.uses_total] >> \o rest
             ELSE rest

IsCompletedFor(t, template_id) ==
    t.template_id = template_id /\ t.payment_status = "completed"

\* The summary without the payment_status filter.
get_token_usage_for_template_all(all_tokens, template_id) ==
    LET tokens == SelectSeq(all_tokens, LAMBDA t : t.template_id = template_id)
        total_uses_purchased == SumUsesTotal(tokens)
        total_uses_remaining == SumUsesRemaining(tokens)
        total_uses_consumed == total_uses_purchased - total_uses_remaining
    IN  [result |->
           [ total_tokens         |-> Len(tokens),
             total_uses_purchased |-> total_uses_purchased,
             uses_remaining       |-> total_uses_remaining,
             uses_consumed        |-> total_uses_consumed,
             available_tokens     |-> AvailableTokens(tokens) ],
         payment_tokens |-> all_tokens]

get_token_usage_for_template(all_tokens, template_id) ==
    LET tokens == SelectSeq(all_tokens,
                            LAMBDA t : IsCompletedFor(t, template_id))
        total_uses_purchased == SumUsesTotal(tokens)
        total_uses_remaining == SumUsesRemaining(tokens)
        total_uses_consumed == total_uses_purchased - total_uses_remaining
    IN  [result |->
           [ total_tokens         |-> Len(tokens),
             total_uses_purchased |-> total_uses_purchased,
             uses_remaining       |-> total_uses_remaining,
             uses_consumed        |-> total_uses_consumed,
             available_tokens     |-> AvailableTokens(tokens) ],
         payment_tokens |-> all_tokens]

InitUser ==
    /\ TokenIdle
    /\ ContactIdle
    /\ WmIdle
    /\ MwIdle
    /\ \E n \in 0..MaxTokens :
       \E rows \in [1..n -> UserRows], tpls \in [1..n -> Templates] :
          payment_tokens = [i \in 1..n |-> UserToken(i, tpls[i], rows[i])]
    /\ free_credits_remaining \in FreeCredits
    /\ tplArg = 0
    /\ picked = 0
    /\ usage = EmptyUsage

tokenVars == <<token, now, raised, calls, pc, loaded>>

\* Each call below leaves the return slots of the other methods empty.

CanGenerateWithFreeTemplate ==
    /\ LET r == can_generate_with_free_template(free_credits_remaining)
       IN  /\ ret' = r.result
           /\ free_credits_remaining' = r.free_credits_remaining
    /\ lastOp' = "can_generate_with_free_template"
    /\ tplArg' = 0
    /\ picked' = 0 /\ usage' = EmptyUsage
    /\ UNCHANGED payment_tokens
    /\ UNCHANGED <<tokenVars, contactVars, wmVars, mwVars>>

DeductFreeCredit ==
    /\ LET r == deduct_free_credit(free_credits_remaining)
       IN  /\ ret' = r.result
           /\ free_credits_remaining' = r.free_credits_remaining
    /\ lastOp' = "deduct_free_credit"
    /\ tplArg' = 0
    /\ picked' = 0 /\ usage' = EmptyUsage
    /\ UNCHANGED payment_tokens
    /\ UNCHANGED <<tokenVars, contactVars, wmVars, mwVars>>

CanGenerateWithPaidTemplate ==
    /\ \E template_id \in Templates :
          LET r == can_generate_with_paid_template(payment_tokens, template_id)
          IN  /\ ret' = r.result
              /\ payment_tokens' = r.payment_tokens
              /\ tplArg' = template_id
    /\ lastOp' = "can_generate_with_paid_template"
    /\ picked' = 0 /\ usage' = EmptyUsage
    /\ UNCHANGED free_credits_remaining
    /\ UNCHANGED <<tokenVars, contactVars, wmVars, mwVars>>

GetUnusedTokenForTemplate ==
    /\ \E template_id \in Templates :
          LET r == get_unused_token_for_template(payment_tokens, template_id)
          IN  /\ picked' = r.result
              /\ payment_tokens' = r.payment_tokens
              /\ tplArg' = template_id
    /\ lastOp' = "get_unused_token_for_template"
    /\ ret' = FALSE /\ usage' = EmptyUsage
    /\ UNCHANGED free_credits_remaining
    /\ UNCHANGED <<tokenVars, contactVars, wmVars, mwVars>>

GetTokenUsageForTemplate ==
    /\ \E template_id \in Templates :
          LET r == get_token_usage_for_template(payment_tokens, template_id)
          IN  /\ usage' = r.result
              /\ payment_tokens' = r.payment_tokens
              /\ tplArg' = template_id
    /\ lastOp' = "get_token_usage_for_template"
    /\ ret' = FALSE /\ picked' = 0
    /\ UNCHANGED free_credits_remaining
    /\ UNCHANGED <<tokenVars, contactVars, wmVars, mwVars>>

\* can_be_used() on one token of the collection.
TokenCanBeUsed ==
    /\ \E i \in 1..Len(payment_tokens) :
          /\ ret' = can_be_used(payment_tokens[i])
          /\ tplArg' = payment_tokens[i].template_id
    /\ lastOp' = "token.can_be_used"
    /\ picked' = 0 /\ usage' = EmptyUsage
    /\ UNCHANGED <<payment_tokens, free_credits_remaining>>
    /\ UNCHANGED <<tokenVars, contactVars, wmVars, mwVars>>

NextUser ==
    \/ CanGenerateWithFreeTemplate
    \/ DeductFreeCredit
    \/ CanGenerateWithPaidTemplate
    \/ GetUnusedTokenForTemplate
    \/ GetTokenUsageForTemplate
    \/ TokenCanBeUsed

SpecUser == InitUser /\ [][NextUser]_vars

\* ---------------------------- SpecContact: the /api/contact endpoints

MaxContacts == 2

\* The clock of the inbox ticks up to this time.
MaxContactTime == 1

ContactIds == 1..MaxContacts

\* Validated ContactCreate payloads.
ContactData ==
    { [ name |-> "Rahul Sharma", email |-> "rahul@example.com",
        phone |-> "9876543210", eventDate |-> "20-03-2025",
        message |-> "hello" ] }

NoteTexts == {"called back"}

\* Optional[bool] as a set: {} is None, {v} is the value v.
OptionalBool == {{}, {TRUE}, {FALSE}}

\* ContactUpdateStatus bodies.
StatusUpdates ==
    [ is_read : OptionalBool, is_responded : OptionalBool,
      admin_notes : {NoneStr} \cup NoteTexts ]

\* The table with one row more or one row changed.
Put(table, id, row) ==
    [i \in DOMAIN table \cup {id} |-> IF i = id THEN row ELSE table[i]]

Remove(table, id) == [i \in DOMAIN table \ {id} |-> table[i]]

\* A row holds the columns of Contact except created_at, which is written
\* once by the insert and read only by queries that change nothing.

\* A flushed change of a row: onupdate stamps updated_at when an UPDATE is
\* emitted, which happens only when some column value differs.
Flush(table, id, row, utcnow) ==
    IF row = table[id] THEN table
    ELSE Put(table, id, [row EXCEPT !.updated_at = utcnow])

create_contact(table, next_id, contact_data, commit_ok, utcnow) ==
    IF commit_ok
    THEN [ status |-> 201,
           contacts |-> Put(table, next_id,
              [ name         |-> contact_data.name,
                email        |-> contact_data.email,
                phone        |-> contact_data.phone,
                event_date   |-> contact_data.eventDate,
                message      |-> contact_data.message,
                is_read      |-> FALSE,
                is_responded |-> FALSE,
                admin_notes  |-> NoneStr,
                updated_at   |-> utcnow ]),
           nextId |-> next_id + 1 ]
    ELSE [ status |-> 500, contacts |-> table, nextId |-> next_id ]

get_all_contacts(is_admin, table) ==
    IF ~is_admin THEN [status |-> 403, contacts |-> table]
    ELSE [status |-> 200, contacts |-> table]

\* get_contact writing the row on every view
get_contact_always_write(is_admin, table, contact_id, utcnow) ==
    IF ~is_admin THEN [status |-> 403, contacts |-> table]
    ELSE IF contact_id \notin DOMAIN table
    THEN [status |-> 404, contacts |-> table]
    ELSE [ status |-> 200,
           contacts |-> Put(table, contact_id,
                            [table[contact_id] EXCEPT !.is_read = TRUE,
                                                      !.updated_at = utcnow]) ]

get_contact(is_admin, table, contact_id, utcnow) ==
    IF ~is_admin THEN [status |-> 403, contacts |-> table]
    ELSE IF contact_id \notin DOMAIN table
    THEN [status |-> 404, contacts |-> table]
    ELSE IF ~table[contact_id].is_read
    THEN [ status |-> 200,
           contacts |-> Flush(table, contact_id,
                              [table[contact_id] EXCEPT !.is_read = TRUE],
                              utcnow) ]
    ELSE [status |-> 200, contacts |-> table]

\* update_contact_status testing the truth of a field, not `is not None`
update_contact_status_truthy(is_admin, table, contact_id, status_update, utcnow) ==
    IF ~is_admin THEN [status |-> 403, contacts |-> table]
    ELSE IF contact_id \notin DOMAIN table
    THEN [status |-> 404, contacts |-> table]
    ELSE LET c0 == table[contact_id]
             c1 == IF status_update.is_read = {TRUE}
                   THEN [c0 EXCEPT !.is_read = TRUE]
                   ELSE c0
             c2 == IF status_update.is_responded = {TRUE}
                   THEN [c1 EXCEPT !.is_responded = TRUE]
                   ELSE c1
             c3 == IF status_update.admin_notes # NoneStr
                   THEN [c2 EXCEPT !.admin_notes = status_update.admin_notes]
                   ELSE c2
         IN  [ status |-> 200,
               contacts |-> Flush(table, contact_id, c3, utcnow) ]

update_contact_status(is_admin, table, contact_id, status_update, utcnow) ==
    IF ~is_admin THEN [status |-> 403, contacts |-> table]
    ELSE IF contact_id \notin DOMAIN table
    THEN [status |-> 404, contacts |-> table]
    ELSE LET c0 == table[contact_id]
             c1 == IF status_update.is_read # {}
                   THEN [c0 EXCEPT !.is_read =
                           CHOOSE v \in status_update.is_read : TRUE]
                   ELSE c0
             c2 == IF status_update.is_responded # {}
                   THEN [c1 EXCEPT !.is_responded =
                           CHOOSE v \in status_update.is_responded : TRUE]
                   ELSE c1
             c3 == IF status_update.admin_notes # NoneStr
                   THEN [c2 EXCEPT !.admin_notes = status_update.admin_notes]
                   ELSE c2
         IN  [ status |-> 200,
               contacts |-> Flush(table, contact_id, c3, utcnow) ]

\* delete without the admin check
delete_contact_unchecked(is_admin, table, contact_id) ==
    IF contact_id \notin DOMAIN table
    THEN [status |-> 404, contacts |-> table]
    ELSE [status |-> 200, contacts |-> Remove(table, contact_id)]

delete_contact(is_admin, table, contact_id) ==
    IF ~is_admin THEN [status |-> 403, contacts |-> table]
    ELSE IF contact_id \notin DOMAIN table
    THEN [status |-> 404, contacts |-> table]
    ELSE [status |-> 200, contacts |-> Remove(table, contact_id)]

get_contact_stats(is_admin, table) ==
    IF ~is_admin THEN [status |-> 403, contacts |-> table]
    ELSE [status |-> 200, contacts |-> table]

InitContact ==
    /\ TokenIdle
    /\ UserIdle
    /\ WmIdle
    /\ MwIdle
    /\ ContactIdle

otherThanContact ==
    <<token, raised, ret, calls, pc, loaded, userVars, wmVars, mwVars>>

TickContact ==
    /\ now < MaxContactTime
    /\ now' = now + 1
    /\ UNCHANGED <<lastOp, contactVars, otherThanContact>>

\* POST /api/contact/ : no current_user dependency.
CreateContact ==
    /\ nextId <= MaxContacts
    /\ \E contact_data \in ContactData, commit_ok \in BOOLEAN :
          LET r == create_contact(contacts, nextId, contact_data, commit_ok, now)
          IN  /\ contacts' = r.contacts
              /\ nextId' = r.nextId
              /\ cStatus' = r.status
              /\ cId' = IF commit_ok THEN nextId ELSE 0
    /\ lastOp' = "create_contact"
    /\ cBody' = NoBody
    /\ UNCHANGED <<cAdmin, now, otherThanContact>>

GetAllContacts ==
    /\ \E is_admin \in BOOLEAN :
          LET r == get_all_contacts(is_admin, contacts)
          IN  /\ contacts' = r.contacts
              /\ cStatus' = r.status
              /\ cAdmin' = is_admin
    /\ cId' = 0
    /\ lastOp' = "get_all_contacts"
    /\ cBody' = NoBody
    /\ UNCHANGED <<nextId, now, otherThanContact>>

GetContact ==
    /\ \E is_admin \in BOOLEAN, contact_id \in ContactIds :
          LET r == get_contact(is_admin, contacts, contact_id, now)
          IN  /\ contacts' = r.contacts
              /\ cStatus' = r.status
              /\ cAdmin' = is_admin
              /\ cId' = contact_id
    /\ lastOp' = "get_contact"
    /\ cBody' = NoBody
    /\ UNCHANGED <<nextId, now, otherThanContact>>

\* PATCH /api/contact/{contact_id}.  A caller without admin rights sends
\* the default body: the handler answers 403 before it reads the body.
UpdateContactStatus ==
    /\ \E is_admin \in BOOLEAN, contact_id \in ContactIds :
       \E status_update \in IF is_admin THEN StatusUpdates ELSE {NoBody} :
          LET r == update_contact_status(is_admin, contacts, contact_id,
                                         status_update, now)
          IN  /\ contacts' = r.contacts
              /\ cStatus' = r.status
              /\ cAdmin' = is_admin
              /\ cId' = contact_id
              /\ cBody' = status_update
    /\ lastOp' = "update_contact_status"
    /\ UNCHANGED <<nextId, now, otherThanContact>>

DeleteContact ==
    /\ \E is_admin \in BOOLEAN, contact_id \in ContactIds :
          LET r == delete_contact(is_admin, contacts, contact_id)
          IN  /\ contacts' = r.contacts
              /\ cStatus' = r.status
              /\ cAdmin' = is_admin
              /\ cId' = contact_id
    /\ lastOp' = "delete_contact"
    /\ cBody' = NoBody
    /\ UNCHANGED <<nextId, now, otherThanContact>>

GetContactStats ==
    /\ \E is_admin \in BOOLEAN :
          LET r == get_contact_stats(is_admin, contacts)
          IN  /\ contacts' = r.contacts
              /\ cStatus' = r.status
              /\ cAdmin' = is_admin
    /\ cId' = 0
    /\ lastOp' = "get_contact_stats"
    /\ cBody' = NoBody
    /\ UNCHANGED <<nextId, now, otherThanContact>>

NextContact ==
    \/ TickContact
    \/ CreateContact
    \/ GetAllContacts
    \/ GetContact
    \/ UpdateContactStatus
    \/ DeleteContact
    \/ GetContactStats

SpecContact == InitContact /\ [][NextContact]_vars

\* ------------------------------------------- SpecWm: WatermarkService

\* WatermarkService.PADDING
PADDING == 25

ImageModes == {"RGB", "RGBA", "L"}

\* (width, height) of source images; the last is too low for a logo.
ImageSizes == { <<1000, 800>>, <<1920, 1080>>, <<64, 16>> }

\* (width, height) of logo files.
LogoSizes == { <<200, 60>>, <<260, 60>>, <<120, 120>> }

\* int(height * LOGO_SIZE_PERCENT) with LOGO_SIZE_PERCENT = 0.05.  The
\* double nearest to 0.05 lies above 1/20 by less than 3e-18, so the
\* rounded product is never below an exact multiple and the truncation
\* is the integer quotient by 20.
logo_height_for(height) == height \div 20

RECURSIVE Pow2(_)
Pow2(k) == IF k = 0 THEN 1 ELSE 2 * Pow2(k - 1)

\* 2^e modulo m
RECURSIVE Pow2Mod(_, _)
Pow2Mod(e, m) == IF e = 0 THEN 1 % m ELSE (2 * Pow2Mod(e - 1, m)) % m

\* floor(log2(a / b)) for a, b >= 1
RECURSIVE Log2Up(_, _, _)
Log2Up(a, b, j) == IF a >= 2 * b * Pow2(j) THEN Log2Up(a, b, j + 1) ELSE j

RECURSIVE Log2Down(_, _, _)
Log2Down(a, b, k) == IF a * Pow2(k) < b THEN Log2Down(a, b, k + 1) ELSE k

Log2Floor(a, b) == IF a >= b THEN Log2Up(a, b, 0) ELSE 0 - Log2Down(a, b, 1)

IsPow2(n) == \E k \in 0..30 : n = Pow2(k)

\* int(h * (lw / lh)) as IEEE-754 doubles compute it (h, lw, lh >= 1).
\* aspect_ratio = lw / lh is the quotient rounded to 53 bits, the product
\* is rounded again, and int() truncates.  Both roundings are relative
\* errors below 2^-52, so the result differs from floor(h * lw / lh) only
\* when h * lw / lh is an integer n and the rounded product falls below n:
\* the quotient was rounded down by R / (lh * 2^e), R the remainder of
\* lw * 2^e by lh at the quotient's exponent e = 52 - floor(log2(lw / lh)),
\* and h times that exceeds half the spacing of the doubles just below n.
int_of_scaled_ratio(h, lw, lh) ==
    LET n == (h * lw) \div lh
    IN  IF (h * lw) % lh # 0 THEN n
        ELSE LET j  == Log2Floor(lw, lh)
                 e  == 52 - j
                 R  == ((lw % lh) * Pow2Mod(e, lh)) % lh
                 d  == Log2Floor(n, 1) - j
                 rounds_down == R # 0 /\ 2 * R < lh
                 below == IF IsPow2(n)
                          THEN 4 * h * R > lh * Pow2(d)
                          ELSE 2 * h * R > lh * Pow2(d)
             IN  IF rounds_down /\ below THEN n - 1 ELSE n

\* image.convert('RGBA') unless the image is RGBA already
to_rgba(mode) == IF mode # "RGBA" THEN "RGBA" ELSE mode

convert_back_keep(mode) == mode

\* if watermarked.mode == 'RGBA': watermarked = watermarked.convert('RGB')
convert_back(mode) == IF mode = "RGBA" THEN "RGB" ELSE mode

\* The exception the load of the source image raises, if any.
LoadFailure(in) ==
    IF in.http /\ ~in.fetched THEN "ConnectionError"
    ELSE IF ~in.decodes THEN "UnidentifiedImageError"
    ELSE NoneStr

\* The exception the load of the logo raises, if any.
LogoFailure(in) ==
    IF ~in.logo_path THEN "ValueError: Logo path is required"
    ELSE IF ~in.logo_exists THEN "FileNotFoundError"
    ELSE IF ~in.logo_decodes THEN "UnidentifiedImageError (logo)"
    ELSE NoneStr

\* watermarked.save(output_path, ...): on failure the file at output_path
\* is as it was or partly written.
Save(in, file, mode) ==
    IF in.save_ok
    THEN [present |-> TRUE, complete |-> TRUE, mode |-> mode]
    ELSE IF in.save_partial
    THEN [present |-> TRUE, complete |-> FALSE, mode |-> mode]
    ELSE file

\* except Exception as e: raise Exception(f"Failed to ...: {str(e)}")
Wrapped(message, cause, res, file) ==
    [ res |-> [res EXCEPT !.ok = FALSE, !.error = message, !.cause = cause],
      file |-> file ]

\* A variant that writes the converted image before it looks at the logo.
add_watermark_save_first(in, file) ==
    LET msg == "Failed to add watermark"
        r1 == [NoResult EXCEPT !.composite_mode = to_rgba(in.mode)]
    IN  IF LoadFailure(in) # NoneStr
        THEN Wrapped(msg, LoadFailure(in), NoResult, file)
        ELSE IF LogoFailure(in) # NoneStr
        THEN Wrapped(msg, LogoFailure(in), r1,
                     Save(in, file, convert_back(r1.composite_mode)))
        ELSE Wrapped(msg, "save", r1, file)

add_watermark(in, file) ==
    LET msg == "Failed to add watermark"
        r1 == [NoResult EXCEPT !.composite_mode = to_rgba(in.mode)]
        logo_height == logo_height_for(in.height)
        logo_width  == IF logo_height >= 1
                       THEN int_of_scaled_ratio(logo_height, in.logo_width,
                                                in.logo_height)
                       ELSE 0
        r2 == [r1 EXCEPT !.sized  = TRUE,
                         !.logo_w = logo_width,
                         !.logo_h = logo_height,
                         !.logo_x = in.width - logo_width - PADDING,
                         !.logo_y = in.height - logo_height - PADDING]
        out_mode == convert_back(r1.composite_mode)
    IN  IF LoadFailure(in) # NoneStr
        THEN Wrapped(msg, LoadFailure(in), NoResult, file)
        ELSE IF LogoFailure(in) # NoneStr
        THEN Wrapped(msg, LogoFailure(in), r1, file)
        ELSE IF logo_width <= 0 \/ logo_height <= 0
        THEN Wrapped(msg, "ValueError: height and width must be > 0",
                     [r1 EXCEPT !.logo_w = logo_width, !.logo_h = logo_height],
                     file)
        ELSE IF ~in.save_ok
        THEN Wrapped(msg, "OSError (save)", r2, Save(in, file, out_mode))
        ELSE [ res  |-> [r2 EXCEPT !.ok = TRUE],
               file |-> Save(in, file, out_mode) ]

add_diagonal_pattern(in, file) ==
    LET msg == "Failed to add diagonal watermark"
        r1 == [NoResult EXCEPT !.composite_mode = to_rgba(in.mode)]
        out_mode == convert_back(r1.composite_mode)
    IN  IF LoadFailure(in) # NoneStr
        THEN Wrapped(msg, LoadFailure(in), NoResult, file)
        ELSE IF ~in.save_ok
        THEN Wrapped(msg, "OSError (save)", r1, Save(in, file, out_mode))
        ELSE [ res  |-> [r1 EXCEPT !.ok = TRUE],
               file |-> Save(in, file, out_mode) ]

\* Arguments and environment of a call; what a call cannot observe is
\* fixed (no fetch for a local path, no logo file without a path, ...).
ImageInputs ==
    { [NoInput EXCEPT !.http = h, !.fetched = f, !.decodes = d, !.mode = m,
                      !.width = sz[1], !.height = sz[2],
                      !.save_ok = so, !.save_partial = sp] :
        h \in BOOLEAN, f \in BOOLEAN, d \in BOOLEAN, m \in ImageModes,
        sz \in ImageSizes, so \in BOOLEAN, sp \in BOOLEAN }

WellFormedInput(in) ==
    /\ ~in.http => in.fetched
    /\ ~in.fetched => ~in.decodes
    /\ in.save_ok => ~in.save_partial
    /\ ~in.logo_path => ~in.logo_exists
    /\ ~in.logo_exists => ~in.logo_decodes
    /\ ~in.logo_decodes <=> in.logo_width = 0

LogoInputs(in) ==
    { [in EXCEPT !.logo_path = lp, !.logo_exists = le, !.logo_decodes = ld,
                 !.logo_width = IF ld THEN ls[1] ELSE 0,
                 !.logo_height = IF ld THEN ls[2] ELSE 0] :
        lp \in BOOLEAN, le \in BOOLEAN, ld \in BOOLEAN, ls \in LogoSizes }

InitWm ==
    /\ TokenIdle
    /\ UserIdle
    /\ ContactIdle
    /\ MwIdle
    /\ WmIdle

otherThanWm ==
    <<token, now, raised, ret, calls, pc, loaded, userVars, contactVars,
      mwVars>>

AddWatermark ==
    /\ \E img \in ImageInputs : WellFormedInput(img) /\ \E in \in LogoInputs(img) :
          /\ WellFormedInput(in)
          /\ wmIn' = in
          /\ LET r == add_watermark(in, wmFile)
             IN  wmRes' = r.res /\ wmFile' = r.file
    /\ lastOp' = "add_watermark"
    /\ UNCHANGED otherThanWm

AddDiagonalPattern ==
    /\ \E in \in ImageInputs :
          /\ WellFormedInput(in)
          /\ wmIn' = in
          /\ LET r == add_diagonal_pattern(in, wmFile)
             IN  wmRes' = r.res /\ wmFile' = r.file
    /\ lastOp' = "add_diagonal_pattern"
    /\ UNCHANGED otherThanWm

NextWm ==
    \/ AddWatermark
    \/ AddDiagonalPattern

SpecWm == InitWm /\ [][NextWm]_vars

\* --------------------- SpecMw: the middleware of app/middleware/security.py

\* self.max_failures
max_failures == 10

\* self.block_duration, in seconds
block_duration == 3600

\* time.time() advances by this many seconds at a tick, MaxMwTicks times:
\* failures one tick apart are not in one window, and requests that
\* overlap put failures of different times into one list.
ClockStep == block_duration + 1

MaxMwTicks == 2

\* At most this many requests await call_next at once.
MaxInFlight == 2

\* At most this many 401 timestamps are on record over all IPs.
MaxRecorded == 11

\* status codes the downstream handlers answer with
DownstreamStatus == {200, 401}

\* The app.add_middleware calls of main.py, in the order they are made
\* (RequestLoggingMiddleware is left out in production without DEBUG).
MiddlewareRegistered ==
    << "SecurityHeadersMiddleware", "RequestValidationMiddleware",
       "RateLimitMiddleware", "SuspiciousActivityMiddleware",
       "RequestLoggingMiddleware", "CORSMiddleware", "GZipMiddleware" >>

\* add_middleware puts each middleware in front of those registered before
\* it, so the one registered last is outermost: position 1 of this order
\* sees a request first and its response last.
MiddlewareStack ==
    [ i \in 1..Len(MiddlewareRegistered) |->
        MiddlewareRegistered[Len(MiddlewareRegistered) + 1 - i] ]

PositionOf(name) ==
    IF \E i \in DOMAIN MiddlewareStack : MiddlewareStack[i] = name
    THEN CHOOSE i \in DOMAIN MiddlewareStack : MiddlewareStack[i] = name
    ELSE Len(MiddlewareStack) + 1

\* The headers a middleware sets on a response that passes through it on
\* the way out (Strict-Transport-Security is set in production only; the
\* CORS and GZip headers depend on the request and the body size).
HeadersSetBy(name) ==
    IF name = "SecurityHeadersMiddleware"
    THEN { "X-Frame-Options", "X-Content-Type-Options", "X-XSS-Protection",
           "Referrer-Policy", "Content-Security-Policy",
           "Permissions-Policy" }
    ELSE IF name = "RequestLoggingMiddleware"
    THEN { "X-Process-Time" }
    ELSE {}

\* A response produced by `producer` (a middleware, or "router" for the
\* routes inside every middleware) passes through the middleware outside
\* the producer only.
ResponseHeaders(producer) ==
    UNION { HeadersSetBy(MiddlewareStack[i]) :
              i \in 1..(PositionOf(producer) - 1) }

\* SuspiciousActivityMiddleware.dispatch up to `await call_next`
dispatch_before_unchecked(failed, blocked, client_ip, current_time) ==
    [ call_next |-> TRUE, status_code |-> 0, error |-> NoneStr,
      failed_attempts |-> failed, blocked_ips |-> blocked ]

dispatch_before(failed, blocked, client_ip, current_time) ==
    IF client_ip \in blocked
    THEN [ call_next |-> FALSE, status_code |-> 403,
           error |-> "access_denied",
           failed_attempts |-> failed, blocked_ips |-> blocked ]
    ELSE [ call_next |-> TRUE, status_code |-> 0, error |-> NoneStr,
           failed_attempts |-> failed, blocked_ips |-> blocked ]

\* [t for t in ... if current_time - t < self.block_duration]
RecentFailures(times, current_time) ==
    SelectSeq(times, LAMBDA t : current_time - t < block_duration)

\* SuspiciousActivityMiddleware.dispatch after `await call_next`
dispatch_after_unpruned(failed, blocked, client_ip, current_time, status_code) ==
    IF status_code = 401
    THEN LET appended == Append(failed[client_ip], current_time)
         IN  [ failed_attempts |-> [failed EXCEPT ![client_ip] = appended],
               blocked_ips |-> IF Len(appended) >= max_failures
                               THEN blocked \cup {client_ip}
                               ELSE blocked ]
    ELSE [ failed_attempts |-> failed, blocked_ips |-> blocked ]

dispatch_after_reset_on_success(failed, blocked, client_ip, current_time, status_code) ==
    IF status_code = 401
    THEN LET appended == Append(failed[client_ip], current_time)
             kept     == RecentFailures(appended, current_time)
         IN  [ failed_attempts |-> [failed EXCEPT ![client_ip] = kept],
               blocked_ips |-> IF Len(kept) >= max_failures
                               THEN blocked \cup {client_ip}
                               ELSE blocked ]
    ELSE [ failed_attempts |-> [failed EXCEPT ![client_ip] = <<>>],
           blocked_ips |-> blocked ]

dispatch_after(failed, blocked, client_ip, current_time, status_code) ==
    IF status_code = 401
    THEN LET appended == Append(failed[client_ip], current_time)
             kept     == RecentFailures(appended, current_time)
         IN  [ failed_attempts |-> [failed EXCEPT ![client_ip] = kept],
               blocked_ips |-> IF Len(kept) >= max_failures
                               THEN blocked \cup {client_ip}
                               ELSE blocked ]
    ELSE [ failed_attempts |-> failed, blocked_ips |-> blocked ]

RECURSIVE Recorded(_, _)
Recorded(failed, ips) ==
    IF ips = {} THEN 0
    ELSE LET ip == CHOOSE x \in ips : TRUE
         IN  Len(failed[ip]) + Recorded(failed, ips \ {ip})

InitMw ==
    /\ TokenIdle
    /\ UserIdle
    /\ ContactIdle
    /\ WmIdle
    /\ MwIdle

otherThanMw ==
    <<token, raised, ret, calls, pc, loaded, userVars, contactVars, wmVars>>

TickMw ==
    /\ now < MaxMwTicks * ClockStep
    /\ now' = now + ClockStep
    /\ lastOp' = "tick"
    /\ mwResp' = NoResponse
    /\ UNCHANGED <<failed_attempts, blocked_ips, blocked_since, inflight,
                   otherThanMw>>

\* A request arrives: dispatch runs up to the blocked-IP answer or up to
\* `await call_next`.
Request ==
    /\ \E client_ip \in IPs :
          LET r == dispatch_before(failed_attempts, blocked_ips, client_ip, now)
          IN  /\ r.call_next => BagCardinality(inflight) < MaxInFlight
              /\ failed_attempts' = r.failed_attempts
              /\ blocked_ips' = r.blocked_ips
              /\ inflight' =
                    IF r.call_next
                    THEN inflight (+) SetToBag({[client_ip |-> client_ip,
                                                 current_time |-> now]})
                    ELSE inflight
              /\ mwResp' =
                    [ client_ip |-> client_ip, current_time |-> now,
                      call_next |-> r.call_next,
                      status_code |-> r.status_code, error |-> r.error,
                      headers |-> IF r.call_next THEN {}
                                  ELSE ResponseHeaders(
                                           "SuspiciousActivityMiddleware") ]
    /\ lastOp' = "request"
    /\ UNCHANGED <<now, blocked_since, otherThanMw>>

\* call_next returns the downstream response: dispatch runs to its end.
Response ==
    /\ \E req \in BagToSet(inflight), status_code \in DownstreamStatus :
          LET r == dispatch_after(failed_attempts, blocked_ips, req.client_ip,
                                  req.current_time, status_code)
          IN  /\ status_code = 401 => Recorded(failed_attempts, IPs) < MaxRecorded
              /\ failed_attempts' = r.failed_attempts
              /\ blocked_ips' = r.blocked_ips
              /\ blocked_since' =
                    [ ip \in IPs |->
                        IF ip \in r.blocked_ips \ blocked_ips
                        THEN now ELSE blocked_since[ip] ]
              /\ inflight' = inflight (-) SetToBag({req})
              /\ mwResp' =
                    [ client_ip |-> req.client_ip,
                      current_time |-> req.current_time,
                      call_next |-> TRUE,
                      status_code |-> status_code,
                      error |-> NoneStr,
                      headers |-> ResponseHeaders("router") ]
    /\ lastOp' = "response"
    /\ UNCHANGED <<now, otherThanMw>>

NextMw ==
    \/ TickMw
    \/ Request
    \/ Response

SpecMw == InitMw /\ [][NextMw]_vars

\* ------------------------------------------------------------ properties

\* mark_as_refunded always stamps refunded_at with a time >= 0, so this
\* holds exactly when mark_as_refunded has been called on the token.
Refunded == token.refunded_at # None

ConsumeCalled == lastOp' \in {"use_token", "mark_as_used"} /\ calls' = calls + 1

\* C1: after any sequence of use_token, mark_as_used and mark_as_refunded
\* calls on a token created with uses_remaining = uses_total = N >= 1,
\* raising calls included, 0 <= uses_remaining <= uses_total.
C1_UsesWithinBounds ==
    /\ 0 <= token.uses_remaining
    /\ token.uses_remaining <= token.uses_total

\* A consume has raised on an exhausted token that was also refunded.
C1_Witness ==
    /\ lastOp \in {"use_token", "mark_as_used"}
    /\ raised
    /\ token.uses_remaining = 0
    /\ Refunded

\* C2: two requests consuming a token with one use left, their checks and
\* decrements interleaved: once both have finished exactly one has
\* succeeded, and uses_remaining is never negative.
C2_ExactlyOneConsume ==
    /\ token.uses_remaining >= 0
    /\ (\A r \in Requests : pc[r] \in {"done", "raised"})
          => Cardinality({r \in Requests : pc[r] = "done"}) = 1

\* C3: use_token at uses_remaining = 1 leaves uses_remaining = 0 and
\* status USED in that call; use_token at uses_remaining = 0 raises and
\* leaves the whole token unchanged.
C3_LastUseThenRaise ==
    [][ (lastOp' = "use_token" /\ calls' = calls + 1) =>
          /\ token.uses_remaining = 1 =>
                /\ ~raised'
                /\ token'.uses_remaining = 0
                /\ token'.status = "used"
          /\ token.uses_remaining = 0 =>
                /\ raised'
                /\ token' = token ]_vars

\* The second use_token on an exhausted token has raised, at a later time
\* than the use that exhausted it.
C3_Witness ==
    /\ lastOp = "use_token"
    /\ raised
    /\ token.uses_remaining = 0
    /\ token.status = "used"
    /\ token.last_used_at # None
    /\ token.last_used_at < now

\* C4: right after mark_as_refunded both status and payment_status are
\* REFUNDED, and in every later state can_be_used is false.
C4_RefundedNeverUsable ==
    /\ lastOp = "mark_as_refunded" =>
          /\ token.status = "refunded"
          /\ token.payment_status = "refunded"
    /\ Refunded =>
          /\ ~can_be_used(token)
          /\ ~is_available(token)
          /\ lastOp \in {"can_be_used", "is_available"} => ret = FALSE

\* can_be_used has answered false on a refunded token that still has uses
\* left and was consumed from after the refund.
C4_Witness ==
    /\ Refunded
    /\ lastOp = "can_be_used"
    /\ ret = FALSE
    /\ token.uses_remaining > 0
    /\ token.last_used_at > token.refunded_at

\* C5: once mark_as_refunded has been called, no later call decrements
\* uses_remaining.
C5_NoDebitAfterRefund ==
    [][ Refunded => token'.uses_remaining = token.uses_remaining ]_vars

\* C6: once status is REFUNDED it is REFUNDED in every later state.
C6_RefundedSticky ==
    [][ token.status = "refunded" => token'.status = "refunded" ]_vars

\* C7 (as claimed): a token with uses_remaining = 0 has status USED.
C7_ZeroMeansUsed ==
    token.uses_remaining = 0 => token.status = "used"

\* C7 (amended): a token with uses_remaining = 0 has status USED, or
\* status REFUNDED when mark_as_refunded has been called on it.
C7_ZeroMeansUsedOrRefunded ==
    token.uses_remaining = 0 =>
        \/ token.status = "used"
        \/ token.status = "refunded" /\ Refunded

\* An exhausted token has been refunded.
C7_Witness ==
    /\ token.uses_remaining = 0
    /\ token.status = "refunded"
    /\ token.used_at # None

\* C8: can_be_used and is_available are true iff payment_status is
\* COMPLETED, status is neither REFUNDED nor EXPIRED, and
\* uses_remaining > 0.
C8_UsableIff ==
    LET usable == /\ token.payment_status = "completed"
                  /\ token.status \notin {"refunded", "expired"}
                  /\ token.uses_remaining > 0
    IN  /\ can_be_used(token) <=> usable
        /\ is_available(token) <=> usable
        /\ lastOp \in {"can_be_used", "is_available"} => (ret <=> usable)

\* is_available has answered true on a row marked USED that has a use left.
C8_Witness ==
    /\ lastOp = "is_available"
    /\ ret
    /\ token.status = "used"
    /\ token.uses_remaining = 1

\* C9: can_be_used answers false on a token whose expires_at is in the
\* past.
C9_ExpiredNotUsable ==
    ( /\ lastOp = "can_be_used"
      /\ token.expires_at # None
      /\ token.expires_at < now ) => ret = FALSE

\* C10: a consume on a token that is not usable raises and changes no
\* field of the token.
C10_ConsumeUnusableFails ==
    [][ (ConsumeCalled /\ ~can_be_used(token)) =>
          /\ raised'
          /\ token' = token ]_vars

\* The tokens of the collection that are for the template of the last call
\* and usable.
UsableForArg ==
    { i \in 1..Len(payment_tokens) :
        /\ payment_tokens[i].template_id = tplArg
        /\ can_be_used(payment_tokens[i]) }

\* C11: get_unused_token_for_template(T) returns the first token of the
\* collection that is for T and usable, None exactly when there is none;
\* can_generate_with_paid_template(T) is true exactly when there is one.
C11_FirstUsableToken ==
    /\ lastOp = "get_unused_token_for_template" =>
          IF UsableForArg = {}
          THEN picked = 0
          ELSE /\ picked \in UsableForArg
               /\ \A j \in UsableForArg : picked <= j
    /\ lastOp = "can_generate_with_paid_template" =>
          (ret <=> UsableForArg # {})

\* The first token for T is exhausted and the second, with two uses left,
\* was returned.
C11_Witness ==
    /\ lastOp = "get_unused_token_for_template"
    /\ Len(payment_tokens) = 2
    /\ payment_tokens[1].template_id = tplArg
    /\ payment_tokens[1].payment_status = "completed"
    /\ payment_tokens[1].uses_remaining = 0
    /\ payment_tokens[2].uses_remaining = 2
    /\ picked = 2

FreeTemplateOps == {"can_generate_with_free_template", "deduct_free_credit"}

\* C12: can_generate_with_free_template and deduct_free_credit return true
\* for every value of free_credits_remaining and do not change it.
C12_FreeUnlimited ==
    [][ lastOp' \in FreeTemplateOps =>
          /\ ret' = TRUE
          /\ free_credits_remaining' = free_credits_remaining ]_vars

\* deduct_free_credit has returned true on a negative counter.
C12_Witness ==
    /\ lastOp = "deduct_free_credit"
    /\ ret
    /\ free_credits_remaining < 0

EntitlementChecks ==
    { "can_generate_with_paid_template", "get_unused_token_for_template",
      "get_token_usage_for_template", "token.can_be_used" }

\* C13: the entitlement checks change no field of the user or of the
\* user's tokens, and a check repeated with the same argument returns the
\* same answer.
C13_ChecksSideEffectFree ==
    [][ lastOp' \in EntitlementChecks =>
          /\ payment_tokens' = payment_tokens
          /\ free_credits_remaining' = free_credits_remaining
          /\ (lastOp = lastOp' /\ tplArg = tplArg'
                 /\ lastOp' # "token.can_be_used") =>
                (ret' = ret /\ picked' = picked /\ usage' = usage) ]_vars

\* A token was selected and still has all its uses.
C13_Witness ==
    /\ lastOp = "get_unused_token_for_template"
    /\ picked # 0
    /\ payment_tokens[picked].uses_remaining = 2
    /\ payment_tokens[picked].uses_total = 2

\* C14: a successful use_token decrements uses_remaining by exactly 1 and
\* sets last_used_at; it sets used_at only when used_at was unset; status
\* becomes USED when uses_remaining reaches 0 and is unchanged otherwise.
C14_UseTokenEffects ==
    [][ (ConsumeCalled /\ ~raised') =>
          /\ token'.uses_remaining = token.uses_remaining - 1
          /\ token'.last_used_at = now
          /\ token.used_at = None => token'.used_at = now
          /\ token.used_at # None => token'.used_at = token.used_at
          /\ token'.uses_remaining = 0 => token'.status = "used"
          /\ token'.uses_remaining > 0 => token'.status = token.status ]_vars

\* A second use_token has succeeded later than the first and left a use.
C14_Witness ==
    /\ lastOp = "use_token"
    /\ ~raised
    /\ token.used_at # None
    /\ token.used_at < token.last_used_at
    /\ token.uses_remaining > 0
    /\ token.status = "unused"

\* C15: mark_as_refunded on a token that is already refunded leaves
\* status, payment_status, refund_id, refund_reason and refunded_at as the
\* first refund set them (whether it returns or raises).
C15_RefundIdempotent ==
    [][ (lastOp' = "mark_as_refunded" /\ calls' = calls + 1 /\ Refunded) =>
          /\ token'.status = token.status
          /\ token'.payment_status = token.payment_status
          /\ token'.refund_id = token.refund_id
          /\ token'.refund_reason = token.refund_reason
          /\ token'.refunded_at = token.refunded_at ]_vars

\* The tokens get_token_usage_for_template is to count for the template of
\* the last call.
CompletedForArg ==
    { i \in 1..Len(payment_tokens) :
        /\ payment_tokens[i].template_id = tplArg
        /\ payment_tokens[i].payment_status = "completed" }

RECURSIVE TotalOver(_)
TotalOver(S) ==
    IF S = {} THEN 0
    ELSE LET i == CHOOSE x \in S : TRUE
         IN  payment_tokens[i].uses_total + TotalOver(S \ {i})

RECURSIVE RemainingOver(_)
RemainingOver(S) ==
    IF S = {} THEN 0
    ELSE LET i == CHOOSE x \in S : TRUE
         IN  payment_tokens[i].uses_remaining + RemainingOver(S \ {i})

\* C16: get_token_usage_for_template(T) sums uses_total and uses_remaining
\* over exactly the tokens with template_id = T and payment_status
\* COMPLETED, and uses_consumed is their difference.
C16_UsageSums ==
    lastOp = "get_token_usage_for_template" =>
        /\ usage.total_uses_purchased = TotalOver(CompletedForArg)
        /\ usage.uses_remaining = RemainingOver(CompletedForArg)
        /\ usage.uses_consumed =
              usage.total_uses_purchased - usage.uses_remaining

\* Two tokens for T, one completed and partly used, one refunded: only the
\* completed one was counted.
C16_Witness ==
    /\ lastOp = "get_token_usage_for_template"
    /\ Len(payment_tokens) = 2
    /\ payment_tokens[1].template_id = tplArg
    /\ payment_tokens[2].template_id = tplArg
    /\ payment_tokens[1].payment_status = "refunded"
    /\ payment_tokens[1].uses_remaining = 2
    /\ payment_tokens[2].payment_status = "completed"
    /\ usage.total_uses_purchased = 2
    /\ usage.uses_consumed = 1

AdminOps ==
    { "get_all_contacts", "get_contact", "update_contact_status",
      "delete_contact", "get_contact_stats" }

\* C17: list, get, patch, delete and stats by a caller who is not an admin
\* are answered 403, also for an id that does not exist, and change no
\* contact; create_contact asks for no user and, when its commit succeeds,
\* answers 201 and stores the inquiry unread and unanswered.
C17_AdminOnlyMutation ==
    [][ /\ (lastOp' \in AdminOps /\ now' = now /\ ~cAdmin') =>
              /\ cStatus' = 403
              /\ contacts' = contacts
        /\ (lastOp' = "create_contact" /\ now' = now) =>
              /\ cStatus' \in {201, 500}
              /\ cStatus' = 201 =>
                    /\ cId' \in DOMAIN contacts'
                    /\ cId' \notin DOMAIN contacts
                    /\ ~contacts'[cId'].is_read
                    /\ ~contacts'[cId'].is_responded
                    /\ \A i \in DOMAIN contacts : contacts'[i] = contacts[i]
      ]_vars

\* A caller who is not an admin tried to delete an id that does not exist
\* while an unread inquiry is stored, and got 403.
C17_Witness ==
    /\ lastOp = "delete_contact"
    /\ ~cAdmin
    /\ cStatus = 403
    /\ cId \notin DOMAIN contacts
    /\ \E i \in DOMAIN contacts : ~contacts[i].is_read

WmOps == {"add_watermark", "add_diagonal_pattern"}

ListedFailures ==
    { "ConnectionError", "UnidentifiedImageError",
      "ValueError: Logo path is required", "FileNotFoundError" }

WrappedMessage(op) ==
    IF op = "add_watermark" THEN "Failed to add watermark"
    ELSE "Failed to add diagonal watermark"

\* C18: a failed add_watermark or add_diagonal_pattern raises the one
\* wrapped exception of its method carrying the cause; when the source
\* image cannot be fetched or decoded, logo_path is None or the logo file
\* is missing, the file at output_path is as it was before the call; and
\* the file changes only after every load and the resize succeeded.
C18_FailureWritesNothing ==
    [][ lastOp' \in WmOps =>
          /\ ~wmRes'.ok =>
                /\ wmRes'.error = WrappedMessage(lastOp')
                /\ wmRes'.cause # NoneStr
          /\ wmRes'.ok => wmRes'.error = NoneStr /\ wmRes'.cause = NoneStr
          /\ wmRes'.cause \in ListedFailures => wmFile' = wmFile
          /\ wmFile' # wmFile =>
                /\ wmIn'.http => wmIn'.fetched
                /\ wmIn'.decodes
                /\ lastOp' = "add_watermark" =>
                      /\ wmIn'.logo_path
                      /\ wmIn'.logo_exists
                      /\ wmIn'.logo_decodes
                      /\ wmRes'.sized ]_vars

C18_Witness ==
    /\ lastOp = "add_watermark"
    /\ ~wmRes.ok
    /\ wmRes.cause = "FileNotFoundError"
    /\ wmRes.error = "Failed to add watermark"
    /\ wmIn.save_ok
    /\ ~wmFile.present

\* C19 as stated: a successful call of either watermark mode composites in
\* RGBA and saves the output in the mode of the source image.
C19_OutputKeepsSourceMode ==
    (lastOp \in WmOps /\ wmRes.ok) =>
        /\ wmRes.composite_mode = "RGBA"
        /\ wmFile.present
        /\ wmFile.mode = wmIn.mode

\* C19 amended: a successful call of either watermark mode composites in
\* RGBA and saves the output in mode RGB whatever the mode of the source
\* image, so the source mode is kept exactly when it is RGB.
C19_OutputIsRGB ==
    (lastOp \in WmOps /\ wmRes.ok) =>
        /\ wmRes.composite_mode = "RGBA"
        /\ wmFile.present
        /\ wmFile.complete
        /\ wmFile.mode = "RGB"
        /\ (wmFile.mode = wmIn.mode) <=> (wmIn.mode = "RGB")

C19_Witness ==
    /\ lastOp = "add_diagonal_pattern"
    /\ wmRes.ok
    /\ wmIn.mode = "L"
    /\ wmRes.composite_mode = "RGBA"
    /\ wmFile.mode = "RGB"

\* C20: when add_watermark has sized the logo of lw x lh for an image of
\* W x H, the logo height is floor(0.05 * H), the logo width is
\* floor(that height * lw / lh), the paste position is
\* (W - logo_width - 25, H - logo_height - 25), and a 1000 x 800 image
\* gives a logo height of 40.
C20_LogoGeometry ==
    (lastOp = "add_watermark" /\ wmRes.sized) =>
        /\ wmRes.logo_h = wmIn.height \div 20
        /\ wmRes.logo_w = (wmRes.logo_h * wmIn.logo_width) \div wmIn.logo_height
        /\ wmRes.logo_x = wmIn.width - wmRes.logo_w - 25
        /\ wmRes.logo_y = wmIn.height - wmRes.logo_h - 25
        /\ (wmIn.width = 1000 /\ wmIn.height = 800) => wmRes.logo_h = 40

\* C27: no step of use_token, mark_as_used or mark_as_refunded makes
\* uses_remaining larger or changes uses_total; a refund leaves
\* uses_remaining as it was, and every successful consume finds at least
\* one use and takes exactly one, so a token that starts with uses_total
\* uses is consumed from successfully at most uses_total times.
C27_UsesNeverIncrease ==
    [][ /\ token'.uses_remaining <= token.uses_remaining
        /\ token'.uses_total = token.uses_total
        /\ token'.uses_remaining \in 0..token'.uses_total
        /\ (lastOp' = "mark_as_refunded" /\ calls' = calls + 1) =>
              token'.uses_remaining = token.uses_remaining
        /\ (ConsumeCalled /\ ~raised') =>
              /\ token.uses_remaining >= 1
              /\ token'.uses_remaining = token.uses_remaining - 1 ]_vars

\* A token of two uses was consumed from once and then refunded: one use
\* is still recorded, none was given back.
C27_Witness ==
    /\ lastOp = "mark_as_refunded"
    /\ token.uses_total = 2
    /\ token.uses_remaining = 1
    /\ token.used_at # None
    /\ token.refunded_at # None
    /\ token.refunded_at > token.last_used_at

\* C28: mark_as_refunded never raises, sets status and payment_status to
\* REFUNDED, refund_id and refund_reason to its arguments and refunded_at
\* to the current time, and leaves uses_remaining, uses_total, used_at,
\* last_used_at and expires_at as they were, whatever the prior status.
C28_RefundFrame ==
    [][ (lastOp' = "mark_as_refunded" /\ calls' = calls + 1) =>
          /\ ~raised'
          /\ token'.status = "refunded"
          /\ token'.payment_status = "refunded"
          /\ token'.refund_id \in RefundIds
          /\ token'.refund_reason \in RefundReasons
          /\ token'.refunded_at = now
          /\ token'.uses_remaining = token.uses_remaining
          /\ token'.uses_total = token.uses_total
          /\ token'.used_at = token.used_at
          /\ token'.last_used_at = token.last_used_at
          /\ token'.expires_at = token.expires_at ]_vars

\* An exhausted token (status USED before the call) has been refunded and
\* keeps its usage stamps.
C28_Witness ==
    /\ lastOp = "mark_as_refunded"
    /\ ~raised
    /\ token.status = "refunded"
    /\ token.uses_total = 3
    /\ token.uses_remaining = 0
    /\ token.used_at = 0
    /\ token.last_used_at = 1
    /\ token.refunded_at = 2

\* An admin request on one contact id, as opposed to a tick of the clock.
AdminRequest(op) == lastOp' = op /\ now' = now /\ cAdmin'

OthersUnchanged ==
    /\ DOMAIN contacts' = DOMAIN contacts
    /\ \A i \in DOMAIN contacts \ {cId'} : contacts'[i] = contacts[i]

\* C25 as stated: an admin GET of an existing contact answers 200 and
\* leaves the contact with is_read true and every other field as it was
\* (so a repeated GET changes nothing); for an id that does not exist the
\* answer is 404 and no contact changes.
C25_ViewMarksReadOnly ==
    [][ AdminRequest("get_contact") =>
          /\ cId' \in DOMAIN contacts =>
                /\ cStatus' = 200
                /\ OthersUnchanged
                /\ contacts'[cId'] = [contacts[cId'] EXCEPT !.is_read = TRUE]
          /\ cId' \notin DOMAIN contacts =>
                /\ cStatus' = 404
                /\ contacts' = contacts ]_vars

\* C25 amended: an admin GET of an existing contact answers 200 and leaves
\* the contact with is_read true; when is_read was false, updated_at
\* becomes the time of the request and the other fields stay; when is_read
\* was true already nothing changes; for an id that does not exist the
\* answer is 404 and no contact changes.
C25_ViewMarksReadAndStamps ==
    [][ AdminRequest("get_contact") =>
          /\ cId' \in DOMAIN contacts =>
                /\ cStatus' = 200
                /\ OthersUnchanged
                /\ contacts'[cId'].is_read
                /\ contacts[cId'].is_read => contacts'[cId'] = contacts[cId']
                /\ ~contacts[cId'].is_read =>
                      contacts'[cId'] = [contacts[cId'] EXCEPT
                                            !.is_read = TRUE,
                                            !.updated_at = now]
          /\ cId' \notin DOMAIN contacts =>
                /\ cStatus' = 404
                /\ contacts' = contacts ]_vars

\* An admin has viewed a contact that is now read, stamped at the time of
\* the view and otherwise as created.
C25_Witness ==
    /\ lastOp = "get_contact"
    /\ cAdmin
    /\ cStatus = 200
    /\ cId \in DOMAIN contacts
    /\ contacts[cId].is_read
    /\ ~contacts[cId].is_responded
    /\ contacts[cId].admin_notes = NoneStr
    /\ contacts[cId].updated_at = 1
    /\ now = 1

\* The value a PATCH leaves in an Optional[bool] field.
Patched(old, opt) == IF opt = {} THEN old ELSE CHOOSE v \in opt : TRUE

\* C26: an admin PATCH of an existing contact answers 200, sets each of
\* is_read, is_responded and admin_notes that the body supplies to the
\* supplied value, leaves those the body omits, the contact's submitted
\* data and every other contact as they were; for an id that does not
\* exist the answer is 404 and nothing changes.
C26_PatchFrame ==
    [][ AdminRequest("update_contact_status") =>
          /\ cId' \in DOMAIN contacts =>
                /\ cStatus' = 200
                /\ OthersUnchanged
                /\ contacts'[cId'].is_read =
                      Patched(contacts[cId'].is_read, cBody'.is_read)
                /\ contacts'[cId'].is_responded =
                      Patched(contacts[cId'].is_responded, cBody'.is_responded)
                /\ contacts'[cId'].admin_notes =
                      IF cBody'.admin_notes = NoneStr
                      THEN contacts[cId'].admin_notes
                      ELSE cBody'.admin_notes
                /\ contacts'[cId'].name = contacts[cId'].name
                /\ contacts'[cId'].email = contacts[cId'].email
                /\ contacts'[cId'].phone = contacts[cId'].phone
                /\ contacts'[cId'].event_date = contacts[cId'].event_date
                /\ contacts'[cId'].message = contacts[cId'].message
          /\ cId' \notin DOMAIN contacts =>
                /\ cStatus' = 404
                /\ contacts' = contacts ]_vars

\* A PATCH that supplies is_read = false and omits the rest has cleared
\* is_read on a contact that stays responded and annotated.
C26_Witness ==
    /\ lastOp = "update_contact_status"
    /\ cAdmin
    /\ cStatus = 200
    /\ cBody = [is_read |-> {FALSE}, is_responded |-> {}, admin_notes |-> NoneStr]
    /\ cId \in DOMAIN contacts
    /\ ~contacts[cId].is_read
    /\ contacts[cId].is_responded
    /\ contacts[cId].admin_notes = "called back"

\* The number of recorded timestamps that current_time - t < block_duration
\* keeps in the window of a request that started at current_time.
InWindow(times, current_time) ==
    Cardinality({ i \in DOMAIN times :
                    current_time - times[i] < block_duration })

C22_BlockedRequestRejected ==
    [][ (lastOp' = "request" /\ mwResp'.client_ip \in blocked_ips) =>
          /\ mwResp'.status_code = 403
          /\ mwResp'.error = "access_denied"
          /\ ~mwResp'.call_next
          /\ inflight' = inflight
          /\ failed_attempts' = failed_attempts
          /\ blocked_ips' = blocked_ips ]_vars

\* A blocked IP has been turned away while another request is downstream.
C22_Witness ==
    /\ lastOp = "request"
    /\ mwResp.client_ip \in blocked_ips
    /\ mwResp.status_code = 403
    /\ ~mwResp.call_next
    /\ inflight # EmptyBag

\* C23: a request from a blocked IP is answered 403 while less than
\* block_duration has passed since the IP was blocked, and is passed to
\* call_next once block_duration has passed.
C23_BlockExpires ==
    [][ (lastOp' = "request" /\ mwResp'.client_ip \in blocked_ips) =>
          /\ now - blocked_since[mwResp'.client_ip] < block_duration =>
                (mwResp'.status_code = 403 /\ ~mwResp'.call_next)
          /\ now - blocked_since[mwResp'.client_ip] >= block_duration =>
                mwResp'.call_next ]_vars

SecurityHeaders ==
    { "X-Frame-Options", "X-Content-Type-Options", "Content-Security-Policy" }

\* C24: every response the application returns, the 403 to a blocked IP
\* included, carries X-Frame-Options, X-Content-Type-Options and
\* Content-Security-Policy.
C24_HeadersOnEveryResponse ==
    (lastOp \in {"request", "response"} /\ mwResp.status_code # 0) =>
        SecurityHeaders \subseteq mwResp.headers

\* C29: a downstream response with a status other than 401 leaves
\* failed_attempts and blocked_ips as they were, and the recorded failures
\* of an IP change only at a 401 response for that IP.
C29_NonFailureLeavesTracking ==
    [][ /\ (lastOp' = "response" /\ mwResp'.status_code # 401) =>
              /\ failed_attempts' = failed_attempts
              /\ blocked_ips' = blocked_ips
        /\ \A ip \in IPs :
              failed_attempts'[ip] # failed_attempts[ip] =>
                  /\ lastOp' = "response"
                  /\ mwResp'.status_code = 401
                  /\ mwResp'.client_ip = ip ]_vars

\* A request that succeeded has left on record a failure of its IP that is
\* older than block_duration.
C29_Witness ==
    /\ lastOp = "response"
    /\ mwResp.status_code = 200
    /\ mwResp.client_ip \notin blocked_ips
    /\ failed_attempts[mwResp.client_ip] # <<>>
    /\ mwResp.current_time - failed_attempts[mwResp.client_ip][1]
          >= block_duration

====
